---------------------------- MODULE Spec2Model ----------------------------
(***************************************************************************)
(* Model of the utility code of the TESS workshop notebooks:               *)
(*   exoplanet/02_transit.ipynb          phase folding of a light curve    *)
(*   tesscut_exomast/TESScut_ExoMAST_exercises.ipynb                       *)
(*                                       json_to_table, find_index,        *)
(*                                       make_animation                    *)
(*                                                                         *)
(* Numbers.  The notebooks compute in binary floating point (float64).     *)
(* The model keeps the structure of that arithmetic at a small width: a    *)
(* float is an integer number of grid units whose magnitude has at most    *)
(* MantBits significant bits, and every operation that rounds in IEEE 754  *)
(* rounds here (to nearest, ties to even).  fmod is exact, as in IEEE.     *)
(***************************************************************************)
EXTENDS Integers, Sequences, FiniteSets, TLC

VARIABLES
    pc,             \* position of the running notebook
    x,              \* 02_transit: observation times
    period_guess,   \* 02_transit: folding period
    t0_guess,       \* 02_transit: reference epoch
    x_fold,         \* 02_transit: folded times
    cutout_table,   \* exercises: TIME column of the global cutout_table
    btjd,           \* find_index: argument
    found,          \* find_index: returned index or raised error
    fields,         \* json_to_table: argument
    data,           \* json_to_table: argument
    data_table,     \* json_to_table: returned table or raised error
    anim_args,      \* make_animation: arguments
    ani,            \* make_animation: returned animation or raised error
    shown,          \* make_animation: images drawn so far
    calls           \* session: the calls made so far, with their results

vars == <<pc, x, period_guess, t0_guess, x_fold, cutout_table, btjd, found,
          fields, data, data_table, anim_args, ani, shown, calls>>

foldVars  == <<x, period_guess, t0_guess, x_fold>>
findVars  == <<cutout_table, btjd, found>>
tableVars == <<fields, data, data_table>>
animVars  == <<anim_args, ani, shown>>

None == [none |-> TRUE]      \* Python's None

\* Outcome of a call: a returned value or a raised exception.
Return(v) == [ret |-> v]
Raise(e)  == [raise |-> e]
Returned(r) == "ret" \in DOMAIN r
Raised(r)   == "raise" \in DOMAIN r

(***************************************************************************)
(* Bounds of the model.                                                    *)
(***************************************************************************)
MantBits  == 3      \* significant bits of a float
MaxTime   == 8      \* |t|, |t0| <= MaxTime grid units
MaxPeriod == 12     \* P <= MaxPeriod grid units
MaxLen    == 2      \* length of the light curve
MaxStamp  == 4      \* |TIME[i]| <= MaxStamp grid units
MaxTimes  == 3      \* rows of the cutout table
MaxFields == 2      \* field descriptors of a json_to_table call
MaxRows   == 2      \* rows of a json_to_table call
MaxFrames == 3      \* frames of an image cube
MaxPixel  == 2      \* pixel values are 0..MaxPixel
MaxCalls  == 3      \* calls of one session

(***************************************************************************)
(* Floating point.                                                         *)
(***************************************************************************)
RECURSIVE Pow2(_)
Pow2(n) == IF n <= 0 THEN 1 ELSE 2 * Pow2(n - 1)

Abs(n) == IF n < 0 THEN -n ELSE n

\* Spacing of the floats around magnitude a: 1 below 2^MantBits, doubling
\* with every further binade.
RECURSIVE Ulp(_)
Ulp(a) == IF a < Pow2(MantBits) THEN 1 ELSE 2 * Ulp(a \div 2)

\* Round to nearest float, ties to the even significand.
RoundNE(n) ==
    LET a    == Abs(n)
        u    == Ulp(a)
        q    == a \div u
        r    == a % u
        up   == (2 * r > u) \/ (2 * r = u /\ q % 2 = 1)
        m    == (IF up THEN q + 1 ELSE q) * u
    IN  IF n < 0 THEN -m ELSE m

IsFloat(n) == RoundNE(n) = n

FloatsUpTo(m) == {n \in (-m)..m : IsFloat(n)}

fadd(a, b) == RoundNE(a + b)
fsub(a, b) == RoundNE(a - b)

\* C fmod: exact, result has the sign of the dividend.
fmod(a, b) == IF a < 0 THEN -((-a) % Abs(b)) ELSE a % Abs(b)

\* A variant of the remainder that keeps the C result.
np_mod_trunc(a, b) == fmod(a, b)

\* Python / numpy float remainder: fmod, then the divisor is added when the
\* remainder is nonzero and its sign differs from the divisor's.
np_mod(a, b) ==
    LET m == fmod(a, b)
    IN  IF m # 0 /\ ((b < 0) # (m < 0)) THEN fadd(m, b) ELSE m

\* 0.5 * P: halving a binary float is exact (P is an even number of units).
Half(P) == P \div 2

\* The fold with the C remainder in place of the floored one.
Fold_trunc(t, t0, P) ==
    fsub(np_mod_trunc(fadd(fsub(t, t0), Half(P)), P), Half(P))

\* The fold without the half-period shift of the dividend.
Fold_unshifted(t, t0, P) == fsub(np_mod(fsub(t, t0), P), Half(P))

\* (t - t0 + 0.5*P) % P - 0.5*P
Fold(t, t0, P) == fsub(np_mod(fadd(fsub(t, t0), Half(P)), P), Half(P))

\* The dividend of the remainder, as computed.
FoldArg(t, t0, P) == fadd(fsub(t, t0), Half(P))

Times   == FloatsUpTo(MaxTime)
Periods == {P \in 1..MaxPeriod : P % 2 = 0 /\ IsFloat(P)}

Arrays(S, n) == UNION {[1..k -> S] : k \in 0..n}

(***************************************************************************)
(* Initial state: a fresh kernel, nothing run.                             *)
(***************************************************************************)
Init ==
    /\ pc = "start"
    /\ x = <<>>
    /\ period_guess = None
    /\ t0_guess = None
    /\ x_fold = <<>>
    /\ cutout_table = <<>>
    /\ btjd = None
    /\ found = None
    /\ fields = <<>>
    /\ data = <<>>
    /\ data_table = None
    /\ anim_args = None
    /\ ani = None
    /\ shown = <<>>
    /\ calls = <<>>

(***************************************************************************)
(* 02_transit.ipynb                                                        *)
(***************************************************************************)
\* x = np.array(data["time"], dtype=np.float64)
LoadLightCurve ==
    /\ pc = "start"
    /\ \E xs \in Arrays(Times, MaxLen) \ {<<>>} : x' = xs
    /\ pc' = "loaded"
    /\ UNCHANGED <<period_guess, t0_guess, x_fold>>
    /\ UNCHANGED <<findVars, tableVars, animVars, calls>>

\* period_guess = ...; t0_guess = ...; x_fold = (x - t0 + 0.5*P) % P - 0.5*P
FoldCell ==
    /\ pc = "loaded"
    /\ \E P \in Periods, t0 \in Times :
          /\ period_guess' = P
          /\ t0_guess' = t0
          /\ x_fold' = [i \in 1..Len(x) |-> Fold(x[i], t0, P)]
    /\ pc' = "folded"
    /\ UNCHANGED x
    /\ UNCHANGED <<findVars, tableVars, animVars, calls>>

NextFold == LoadLightCurve \/ FoldCell

SpecFold == Init /\ [][NextFold]_vars

(***************************************************************************)
(* Phase folding: claims.                                                  *)
(***************************************************************************)
Folded == pc = "folded"

\* The sums t - t0 and (t - t0) + 0.5*P are computed without rounding.
ExactArg(t, t0, P) == IsFloat(t - t0) /\ IsFloat(t - t0 + Half(P))

\* C1 (as stated): every folded time lies in the half-open interval
\* [-0.5P, 0.5P): it is >= -0.5P and strictly < 0.5P.
C1_HalfOpenRange ==
    Folded =>
        \A i \in 1..Len(x) :
            /\ x_fold[i] >= -Half(period_guess)
            /\ x_fold[i] < Half(period_guess)

\* C1 (amended): every folded time lies in the closed interval
\* [-0.5P, 0.5P]; it is strictly below 0.5P whenever the computed
\* t - t0 + 0.5P is >= 0, or is negative with a remainder r for which r + P
\* is a float (adding the period back does not round).
C1_ClosedRange ==
    Folded =>
        \A i \in 1..Len(x) :
            LET a == FoldArg(x[i], t0_guess, period_guess)
                h == Half(period_guess)
            IN  /\ x_fold[i] >= -h
                /\ x_fold[i] <= h
                /\ (a >= 0 \/ IsFloat(fmod(a, period_guess) + period_guess))
                      => x_fold[i] < h

\* C1 witness: a time before the epoch whose dividend t - t0 + 0.5P is
\* negative has been folded into the upper half of the interval.
C1_Witness ==
    /\ Folded
    /\ \E i \in 1..Len(x) :
          /\ x[i] < t0_guess
          /\ FoldArg(x[i], t0_guess, period_guess) < 0
          /\ x_fold[i] > 0
          /\ x_fold[i] < Half(period_guess)

\* C2 (as stated): times that differ by a whole number of periods (in
\* either direction) fold to the same value.
C2_Periodic ==
    Folded =>
        \A i, j \in 1..Len(x) :
            (x[j] - x[i]) % period_guess = 0 => x_fold[i] = x_fold[j]

\* C2 (amended): times that differ by a whole number of periods fold to the
\* same value whenever, for both, t - t0 and t - t0 + 0.5P are computed
\* without rounding.
C2_PeriodicExact ==
    Folded =>
        \A i, j \in 1..Len(x) :
            ( /\ (x[j] - x[i]) % period_guess = 0
              /\ ExactArg(x[i], t0_guess, period_guess)
              /\ ExactArg(x[j], t0_guess, period_guess) )
            => x_fold[i] = x_fold[j]

\* C2 witness: two different times, the second a whole number of periods
\* before the first and before the epoch, both folded exactly.
C2_Witness ==
    /\ Folded
    /\ \E i, j \in 1..Len(x) :
          /\ x[j] < x[i]
          /\ x[j] < t0_guess
          /\ (x[i] - x[j]) % period_guess = 0
          /\ ExactArg(x[i], t0_guess, period_guess)
          /\ ExactArg(x[j], t0_guess, period_guess)
          /\ x_fold[i] = x_fold[j]

(***************************************************************************)
(* TESScut_ExoMAST_exercises.ipynb: find_index                             *)
(***************************************************************************)
ValueError == "ValueError"
TypeError  == "TypeError"
IndexError == "IndexError"
AttributeError == "AttributeError"

\* np.abs(cutout_table['TIME'] - btjd), elementwise.
AbsDiff(TIME, q) == [i \in 1..Len(TIME) |-> Abs(fsub(TIME[i], q))]

\* A scan that lets a later equal entry replace the best one.
RECURSIVE ArgMinScan_last(_, _, _)
ArgMinScan_last(d, i, best) ==
    IF i > Len(d) THEN best
    ELSE ArgMinScan_last(d, i + 1, IF d[i] <= d[best] THEN i ELSE best)

\* ndarray.argmin: one pass, a later entry replaces the best one only when
\* strictly smaller.  Positions are 1-based here.
RECURSIVE ArgMinScan(_, _, _)
ArgMinScan(d, i, best) ==
    IF i > Len(d) THEN best
    ELSE ArgMinScan(d, i + 1, IF d[i] < d[best] THEN i ELSE best)

\* An argmin that answers 0 for an empty array.
argmin_noraise(d) ==
    IF Len(d) = 0 THEN Return(0) ELSE Return(ArgMinScan(d, 2, 1) - 1)

\* ndarray.argmin: 0-based index; an empty array raises ValueError.
argmin(d) ==
    IF Len(d) = 0 THEN Raise(ValueError) ELSE Return(ArgMinScan(d, 2, 1) - 1)

\* find_index(btjd), reading the global cutout_table.
find_index(TIME, q) == argmin(AbsDiff(TIME, q))

Stamps       == FloatsUpTo(MaxStamp)
ExampleTimes == <<0, 1, 2, 5, 10>>
TimeColumns  == Arrays(Stamps, MaxTimes) \cup {ExampleTimes}

\* cutout_table = ... (the global table is bound before find_index is used)
LoadCutout ==
    /\ pc = "start"
    /\ \E T \in TimeColumns : cutout_table' = T
    /\ pc' = "cutout"
    /\ UNCHANGED <<btjd, found>>
    /\ UNCHANGED <<foldVars, tableVars, animVars, calls>>

\* find_index(btjd)
FindIndex ==
    /\ pc = "cutout"
    /\ \E q \in Times :
          /\ btjd' = q
          /\ found' = find_index(cutout_table, q)
    /\ pc' = "found"
    /\ UNCHANGED cutout_table
    /\ UNCHANGED <<foldVars, tableVars, animVars, calls>>

NextFind == LoadCutout \/ FindIndex

SpecFind == Init /\ [][NextFind]_vars

(***************************************************************************)
(* find_index: claims.                                                     *)
(***************************************************************************)
Found == pc = "found"

\* The distance of row j (1-based) from the query, as the code computes it.
Dist(j) == Abs(fsub(cutout_table[j], btjd))

C10_FailsIffEmpty ==
    Found =>
        /\ Raised(found) <=> (Len(cutout_table) = 0)
        /\ Len(cutout_table) > 0 =>
              (Returned(found) /\ found.ret \in 0..(Len(cutout_table) - 1))

\* C10 witness: the lookup on an empty sequence has raised.
C10_Witness ==
    /\ Found
    /\ cutout_table = <<>>
    /\ found = Raise(ValueError)

(***************************************************************************)
(* TESScut_ExoMAST_exercises.ipynb: json_to_table                          *)
(*                                                                         *)
(* A Python str is a sequence of one-character strings.  A Python value    *)
(* in a row or a cell is one of PyStr(s), PyNum(n), None, NaN.             *)
(***************************************************************************)
PyStr(s) == [str |-> s]
PyNum(n) == [num |-> n]
NaN      == [nan |-> TRUE]
IsStr(v)  == "str" \in DOMAIN v
IsNum(v)  == "num" \in DOMAIN v
IsNone(v) == "none" \in DOMAIN v

Digit      == {"0", "1", "2", "3", "4", "5", "6", "7", "8", "9"}
Whitespace == {" ", "\t", "\n"}

DigitVal(c) == CASE c = "0" -> 0 [] c = "1" -> 1 [] c = "2" -> 2 [] c = "3" -> 3
                 [] c = "4" -> 4 [] c = "5" -> 5 [] c = "6" -> 6 [] c = "7" -> 7
                 [] c = "8" -> 8 [] c = "9" -> 9
DigitChr(d) == CASE d = 0 -> "0" [] d = 1 -> "1" [] d = 2 -> "2" [] d = 3 -> "3"
                 [] d = 4 -> "4" [] d = 5 -> "5" [] d = 6 -> "6" [] d = 7 -> "7"
                 [] d = 8 -> "8" [] d = 9 -> "9"

s_varchar  == <<"v", "a", "r", "c", "h", "a", "r">>
s_real     == <<"r", "e", "a", "l">>
s_float    == <<"f", "l", "o", "a", "t">>
s_int      == <<"i", "n", "t">>
s_None     == <<"N", "o", "n", "e">>

\* sub occurs in s starting at position i.
OccursAt(s, sub, i) ==
    /\ i >= 1
    /\ i + Len(sub) - 1 <= Len(s)
    /\ \A k \in 1..Len(sub) : s[i + k - 1] = sub[k]

\* sub in s
Contains(s, sub) == \E i \in 1..(Len(s) + 1) : OccursAt(s, sub, i)

\* str.strip(): drop leading and trailing whitespace.
RECURSIVE lstrip(_)
lstrip(s) == IF s # <<>> /\ Head(s) \in Whitespace THEN lstrip(Tail(s)) ELSE s
RECURSIVE rstrip(_)
rstrip(s) == IF s # <<>> /\ s[Len(s)] \in Whitespace
             THEN rstrip(SubSeq(s, 1, Len(s) - 1)) ELSE s
strip(s) == rstrip(lstrip(s))

\* The longest run of digits of s that starts at position i.
RECURSIVE DigitRun(_, _)
DigitRun(s, i) ==
    IF i <= Len(s) /\ s[i] \in Digit THEN <<s[i]>> \o DigitRun(s, i + 1) ELSE <<>>

\* rx = re.compile(r"varchar\((\d+)\)") matches at position i.
RxMatchesAt(s, i) ==
    LET run == DigitRun(s, i + 8)
    IN  /\ OccursAt(s, s_varchar \o <<"(">>, i)
        /\ run # <<>>
        /\ OccursAt(s, <<")">>, i + 8 + Len(run))

\* rx.search(atype): group(1) of the leftmost match, or None.
rx_search(s) ==
    IF \E i \in 1..Len(s) : RxMatchesAt(s, i)
    THEN LET i == CHOOSE k \in 1..Len(s) :
                     RxMatchesAt(s, k) /\ \A m \in 1..(k - 1) : ~RxMatchesAt(s, m)
         IN  PyStr(DigitRun(s, i + 8))
    ELSE None

\* Lines 87-91: the numpy type for a declared type.
map_type(atype) ==
    LET a1 == IF Contains(atype, s_varchar)
              THEN LET match == rx_search(atype)
                   IN  IF IsNone(match) THEN Raise(AttributeError)
                       ELSE Return(<<"U">> \o match.str)
              ELSE Return(atype)
    IN  IF Returned(a1) /\ a1.ret = s_real THEN Return(s_float) ELSE a1

\* int("123")
RECURSIVE ParseDigits(_)
ParseDigits(s) ==
    IF s = <<>> THEN 0 ELSE 10 * ParseDigits(SubSeq(s, 1, Len(s) - 1)) + DigitVal(s[Len(s)])

AllDigits(s) == s # <<>> /\ \A k \in 1..Len(s) : s[k] \in Digit

\* str(n) for an integer n.
RECURSIVE NatStr(_)
NatStr(n) == IF n < 10 THEN <<DigitChr(n)>> ELSE NatStr(n \div 10) \o <<DigitChr(n % 10)>>
IntStr(n) == IF n < 0 THEN <<"-">> \o NatStr(-n) ELSE NatStr(n)

\* str(v)
ToStr(v) == IF IsStr(v) THEN v.str ELSE IF IsNum(v) THEN IntStr(v.num) ELSE s_None

Prefix(s, n) == SubSeq(s, 1, IF n < Len(s) THEN n ELSE Len(s))

\* numpy's dtype strings used here: 'U<N>', 'float', 'int'.
IsUnicodeType(t) == Len(t) >= 2 /\ t[1] = "U" /\ AllDigits(Tail(t))
UnicodeLen(t)    == ParseDigits(Tail(t))
KnownType(t)     == IsUnicodeType(t) \/ t = s_float \/ t = s_int

\* float(s) / int(s) of a str.
ParseNumber(s) ==
    IF AllDigits(s) THEN Return(PyNum(ParseDigits(s)))
    ELSE IF Len(s) >= 2 /\ s[1] = "-" /\ AllDigits(Tail(s))
         THEN Return(PyNum(-ParseDigits(Tail(s))))
         ELSE Raise(ValueError)

\* Conversion of one element by np.array(..., dtype=t).
ConvertCell(v, t) ==
    IF IsUnicodeType(t) THEN Return(PyStr(Prefix(ToStr(v), UnicodeLen(t))))
    ELSE IF IsStr(v) THEN ParseNumber(v.str)
    ELSE IF IsNum(v) THEN Return(v)
    ELSE IF t = s_float THEN Return(NaN)
    ELSE Raise(TypeError)

\* np.array(values, dtype=t): the first element that fails raises.
np_array(values, t) ==
    IF ~KnownType(t) THEN Raise(TypeError)
    ELSE LET conv == [j \in 1..Len(values) |-> ConvertCell(values[j], t)]
         IN  IF \E j \in 1..Len(values) : Raised(conv[j])
             THEN conv[CHOOSE j \in 1..Len(values) :
                          Raised(conv[j]) /\ \A m \in 1..(j - 1) : ~Raised(conv[m])]
             ELSE Return([j \in 1..Len(values) |-> conv[j].ret])

\* x.get(col, None)
dict_get(row, col) == IF col \in DOMAIN row THEN row[col] ELSE None

HasColumn(table, col) == \E k \in 1..Len(table) : table[k].name = col

\* A setitem that appends even when the name exists.
table_append(table, column) == Append(table, column)

\* A setitem that puts a new column in front of the existing ones.
table_setitem_front(table, column) ==
    IF HasColumn(table, column.name)
    THEN [k \in 1..Len(table) |->
             IF table[k].name = column.name THEN column ELSE table[k]]
    ELSE <<column>> \o table

\* data_table[col] = column: a new name is appended, an existing name has
\* its column replaced where it stands (astropy Table.__setitem__).
table_setitem(table, column) ==
    IF HasColumn(table, column.name)
    THEN [k \in 1..Len(table) |->
             IF table[k].name = column.name THEN column ELSE table[k]]
    ELSE Append(table, column)

\* The loop of json_to_table from descriptor i on, with the table so far.
RECURSIVE json_to_table_from(_, _, _, _)
json_to_table_from(flds, rows, i, table) ==
    IF i > Len(flds) THEN Return(table)
    ELSE LET col   == strip(flds[i].colname)
             atype == map_type(flds[i].datatype)
         IN  IF Raised(atype) THEN atype
             ELSE LET arr == np_array([j \in 1..Len(rows) |-> dict_get(rows[j], col)],
                                      atype.ret)
                  IN  IF Raised(arr) THEN arr
                      ELSE json_to_table_from(flds, rows, i + 1,
                               table_setitem(table,
                                   [name |-> col, dtype |-> atype.ret, cells |-> arr.ret]))

\* json_to_table(fields, data)
json_to_table(flds, rows) == json_to_table_from(flds, rows, 1, <<>>)

ColNames  == {<<"a">>, <<"b">>, <<" ", "b", " ">>}
DataTypes == {s_varchar \o <<"(", "3", ")">>, s_real, s_int, s_varchar,
              <<"n">> \o s_varchar \o <<"(", "1", ")">>}
Descriptors == [colname : ColNames, datatype : DataTypes]

ValuesA == {PyStr(<<"x", "y">>)}
ValuesB == {PyNum(1), PyNum(2)}
RowsA == {<<>>} \cup {(<<"a">> :> v) : v \in ValuesA}
RowsB == {<<>>} \cup {(<<"b">> :> v) : v \in ValuesB}
Rows  == {ra @@ rb : ra \in RowsA, rb \in RowsB}

\* data_table = json_to_table(fields, data)
JsonToTable ==
    /\ pc = "start"
    /\ \E flds \in Arrays(Descriptors, MaxFields), rows \in Arrays(Rows, MaxRows) :
          /\ fields' = flds
          /\ data' = rows
          /\ data_table' = json_to_table(flds, rows)
    /\ pc' = "table"
    /\ UNCHANGED <<foldVars, findVars, animVars, calls>>

NextTable == JsonToTable

SpecTable == Init /\ [][NextTable]_vars

(***************************************************************************)
(* json_to_table: claims.                                                  *)
(***************************************************************************)
TableDone == pc = "table"

ColName(k) == strip(fields[k].colname)

DistinctNames ==
    \A k, m \in 1..Len(fields) : k # m => ColName(k) # ColName(m)

\* The declared type is exactly varchar(N) for a number N.
IsVarcharN(t) ==
    /\ RxMatchesAt(t, 1)
    /\ Len(t) = 9 + Len(DigitRun(t, 9))

\* The element type the claim assigns to a declared type.
ClaimedType(t) ==
    IF IsVarcharN(t) THEN <<"U">> \o DigitRun(t, 9)
    ELSE IF t = s_real THEN s_float ELSE t

\* Cell j of a column is made from row j: a str under a string type is the
\* row's text cut to the width, a number under a numeric type is the number.
CellsFollowRows(column) ==
    /\ Len(column.cells) = Len(data)
    /\ \A j \in 1..Len(data) :
          column.name \in DOMAIN data[j] =>
              LET v == data[j][column.name]
              IN  /\ (IsStr(v) /\ IsUnicodeType(column.dtype)) =>
                        column.cells[j] = PyStr(Prefix(v.str, UnicodeLen(column.dtype)))
                  /\ (IsNum(v) /\ ~IsUnicodeType(column.dtype)) =>
                        column.cells[j] = v

WellTyped ==
    /\ \A k \in 1..Len(fields) :
          LET t == fields[k].datatype
          IN  IsVarcharN(t) \/ t = s_real \/ t = s_int
    /\ \A k \in 1..Len(fields), j \in 1..Len(data) :
          ColName(k) \in DOMAIN data[j] =>
              Returned(ConvertCell(data[j][ColName(k)], map_type(fields[k].datatype).ret))

IsNullCell(cell, dtype) ==
    IF IsUnicodeType(dtype) THEN cell = PyStr(<<>>) \/ cell = None
    ELSE IF dtype = s_float THEN cell = NaN \/ cell = None
    ELSE cell = None

\* C5 (as stated): a row without the key of a column does not make the call
\* fail; its cell holds the null value of the column type ("" or a null
\* placeholder under varchar(N), a null float under real), whatever the
\* declared type; cells of rows that have the key are unaffected.
C5_MissingKeyIsNull ==
    (TableDone /\ WellTyped) =>
        /\ Returned(data_table)
        /\ \A k \in 1..Len(data_table.ret) :
              LET col == data_table.ret[k]
              IN  /\ CellsFollowRows(col)
                  /\ \A j \in 1..Len(data) :
                        col.name \notin DOMAIN data[j] =>
                            IsNullCell(col.cells[j], col.dtype)

\* The last descriptor naming the same column as descriptor k.
LastOfName(k) ==
    CHOOSE m \in 1..Len(fields) :
        /\ ColName(m) = ColName(k)
        /\ \A n \in (m + 1)..Len(fields) : ColName(n) # ColName(k)

RECURSIVE SeqMin(_)
SeqMin(q) == IF Len(q) = 1 THEN q[1]
             ELSE LET m == SeqMin(Tail(q)) IN IF q[1] < m THEN q[1] ELSE m
RECURSIVE SeqMax(_)
SeqMax(q) == IF Len(q) = 1 THEN q[1]
             ELSE LET m == SeqMax(Tail(q)) IN IF q[1] > m THEN q[1] ELSE m

\* np.min(data_array), np.max(data_array): over every value of every frame.
np_min(cube) == SeqMin([k \in 1..Len(cube) |-> cube[k][1]])
np_max(cube) == SeqMax([k \in 1..Len(cube) |-> cube[k][1]])

\* Python truth value of an optional number: None and 0 are false.
Falsy(v) == IsNone(v) \/ v.num = 0

\* "if not v": the test the function uses to detect an omitted argument.
IsDefault(v) == Falsy(v)

\* Python sequence indexing: k is valid for -n <= k < n; negative k counts
\* from the end.
ValidIndex(n, k) == -n <= k /\ k < n
Resolve(n, k)    == IF k < 0 THEN n + k ELSE k

\* One imshow call.
Image(kind, k, cube, lo, hi) ==
    [kind |-> kind, index |-> k, frame |-> Resolve(Len(cube), k),
     vmin |-> lo, vmax |-> hi]

Cubes     == UNION {[1..n -> {<<v>> : v \in 0..MaxPixel}] : n \in 1..MaxFrames}
StartArgs(n) == (-1)..n
EndArgs(n)   == {None} \cup {PyNum(e) : e \in (-1)..n}
VminArgs  == {None, PyNum(0), PyNum(1)}
VmaxArgs  == {None, PyNum(0), PyNum(2)}

\* ani = make_animation(data_array, start_frame, end_frame, vmin, vmax)
MakeAnimation ==
    /\ pc = "start"
    /\ \E cube \in Cubes :
       \E s \in StartArgs(Len(cube)), e \in EndArgs(Len(cube)),
          lo \in VminArgs, hi \in VmaxArgs :
          LET vmin       == IF IsDefault(lo) THEN np_min(cube) ELSE lo.num
              vmax       == IF IsDefault(hi) THEN np_max(cube) ELSE hi.num
              end_frame  == IF IsDefault(e) THEN Len(cube) - 1 ELSE e.num
              num_frames == end_frame - s + 1
          IN  /\ anim_args' = [data_array |-> cube, start_frame |-> s,
                               end_frame |-> e, vmin |-> lo, vmax |-> hi]
              /\ IF ValidIndex(Len(cube), s)
                 THEN /\ shown' = <<Image("initial", s, cube, vmin, vmax)>>
                      /\ ani' = Return([start |-> s, frames |-> num_frames,
                                        vmin |-> vmin, vmax |-> vmax])
                      /\ pc' = "playing"
                 ELSE /\ shown' = <<>>
                      /\ ani' = Raise(IndexError)
                      /\ pc' = "anim_failed"
    /\ UNCHANGED <<foldVars, findVars, tableVars, calls>>

\* Number of animate calls made so far.
Played == Len(shown) - 1

\* FuncAnimation calls animate(i, fig, ax, data_array, start_frame) for the
\* next i in range(num_frames).
Animate ==
    /\ pc = "playing"
    /\ Played < ani.ret.frames
    /\ LET cube == anim_args.data_array
           k    == Played + ani.ret.start
       IN  IF ValidIndex(Len(cube), k)
           THEN /\ shown' = Append(shown, Image("frame", k, cube,
                                                ani.ret.vmin, ani.ret.vmax))
                /\ pc' = "playing"
           ELSE /\ shown' = shown
                /\ pc' = "render_failed"
    /\ UNCHANGED <<anim_args, ani>>
    /\ UNCHANGED <<foldVars, findVars, tableVars, calls>>

\* range(num_frames) is exhausted: the animation has played once.
AnimationEnd ==
    /\ pc = "playing"
    /\ Played >= ani.ret.frames
    /\ pc' = "played"
    /\ UNCHANGED <<foldVars, findVars, tableVars, animVars, calls>>

NextAnim == MakeAnimation \/ Animate \/ AnimationEnd

SpecAnim == Init /\ [][NextAnim]_vars

(***************************************************************************)
(* A session: the functions called one after another in one kernel, the    *)
(* global cutout_table rebound in between.  calls keeps, for every call,   *)
(* the arguments as passed, the outcome, and the arguments as they are     *)
(* after the call.  find_index takes the timestamp sequence from the       *)
(* global cutout_table as bound when it is called.                         *)
(***************************************************************************)
\* make_animation(data_array, start_frame, end_frame, vmin, vmax): the
\* returned animation, or the IndexError of the initial plot.
make_animation(cube, s, e, lo, hi) ==
    LET vmin       == IF IsDefault(lo) THEN np_min(cube) ELSE lo.num
        vmax       == IF IsDefault(hi) THEN np_max(cube) ELSE hi.num
        end_frame  == IF IsDefault(e) THEN Len(cube) - 1 ELSE e.num
        num_frames == end_frame - s + 1
    IN  IF ValidIndex(Len(cube), s)
        THEN Return([start |-> s, frames |-> num_frames,
                     vmin |-> vmin, vmax |-> vmax])
        ELSE Raise(IndexError)

\* A lookup that subtracts in place: cutout_table['TIME'] -= btjd.
TimeAfterFind_inplace(TIME, q) == [i \in 1..Len(TIME) |-> fsub(TIME[i], q)]

\* The TIME column after find_index: cutout_table['TIME'] - btjd builds a
\* new array, the column is not written.
TimeAfterFind(TIME, q) == TIME

\* The arguments of the other functions after the call: x - t0 + ... builds
\* new arrays; col.strip() and the rebinding of atype leave the descriptors
\* alone and x.get reads the rows; np.min, np.max and indexing read the cube.
XAfterFold(xs, t0, P)        == xs
FieldsAfterTable(flds, rows) == flds
RowsAfterTable(flds, rows)   == rows
CubeAfterAnimation(cube)     == cube

SessionTables  == {<<>>, <<0, 2>>, <<2, 0>>}
SessionQueries == {0, 3}
SessionCurves  == {<<-7>>, <<5, -7>>}
SessionEphems  == {<<12, 0>>, <<2, 1>>}
SessionFields  == {<<[colname |-> <<"a">>, datatype |-> s_varchar \o <<"(", "3", ")">>]>>,
                   <<[colname |-> <<"b">>, datatype |-> s_int]>>}
SessionData    == {<<(<<"a">> :> PyStr(<<"x", "y">>))>>, <<(<<"b">> :> PyNum(1))>>}
SessionCubes   == {<<<<1>>, <<2>>>>}
SessionStarts  == {0, 2}
SessionEnds    == {None, PyNum(0)}

InSession == pc \in {"start", "session"}

Call(op, args, result, after) ==
    [op |-> op, args |-> args, result |-> result, after |-> after]

\* cutout_table = ...   (the global is rebound)
BindCutout ==
    /\ InSession
    /\ \E T \in SessionTables : cutout_table' = T
    /\ pc' = "session"
    /\ UNCHANGED <<btjd, found, calls>>
    /\ UNCHANGED <<foldVars, tableVars, animVars>>

\* find_index(btjd)
CallFindIndex ==
    /\ InSession
    /\ Len(calls) < MaxCalls
    /\ \E q \in SessionQueries :
          /\ calls' = Append(calls,
                 Call("find_index", <<cutout_table, q>>,
                      find_index(cutout_table, q),
                      <<TimeAfterFind(cutout_table, q), q>>))
          /\ cutout_table' = TimeAfterFind(cutout_table, q)
    /\ pc' = "session"
    /\ UNCHANGED <<btjd, found>>
    /\ UNCHANGED <<foldVars, tableVars, animVars>>

\* (x - t0 + 0.5*P) % P - 0.5*P
CallFold ==
    /\ InSession
    /\ Len(calls) < MaxCalls
    /\ \E xs \in SessionCurves, eph \in SessionEphems :
          LET P  == eph[1]
              t0 == eph[2]
          IN  calls' = Append(calls,
                  Call("fold", <<xs, t0, P>>,
                       Return([i \in 1..Len(xs) |-> Fold(xs[i], t0, P)]),
                       <<XAfterFold(xs, t0, P), t0, P>>))
    /\ pc' = "session"
    /\ UNCHANGED <<foldVars, findVars, tableVars, animVars>>

\* json_to_table(fields, data)
CallJsonToTable ==
    /\ InSession
    /\ Len(calls) < MaxCalls
    /\ \E flds \in SessionFields, rows \in SessionData :
          calls' = Append(calls,
              Call("json_to_table", <<flds, rows>>,
                   json_to_table(flds, rows),
                   <<FieldsAfterTable(flds, rows), RowsAfterTable(flds, rows)>>))
    /\ pc' = "session"
    /\ UNCHANGED <<foldVars, findVars, tableVars, animVars>>

\* make_animation(data_array, start_frame, end_frame)
CallMakeAnimation ==
    /\ InSession
    /\ Len(calls) < MaxCalls
    /\ \E cube \in SessionCubes, s \in SessionStarts, e \in SessionEnds :
          calls' = Append(calls,
              Call("make_animation", <<cube, s, e, None, None>>,
                   make_animation(cube, s, e, None, None),
                   <<CubeAfterAnimation(cube), s, e, None, None>>))
    /\ pc' = "session"
    /\ UNCHANGED <<foldVars, findVars, tableVars, animVars>>

NextSession ==
    BindCutout \/ CallFindIndex \/ CallFold \/ CallJsonToTable \/ CallMakeAnimation

SpecSession == Init /\ [][NextSession]_vars

(***************************************************************************)
(* The notebooks together: a fresh kernel runs one of them, or a session   *)
(* of calls.                                                               *)
(***************************************************************************)
Next == NextFold \/ NextFind \/ NextTable \/ NextAnim \/ NextSession

Spec == Init /\ [][Next]_vars

(***************************************************************************)
(* make_animation: claims.                                                 *)
(***************************************************************************)
AnimCalled == pc \in {"playing", "played", "render_failed", "anim_failed"}

NFrames == Len(anim_args.data_array)

\* The first and last frame the caller asked for (an omitted end_frame
\* meaning the last frame of the cube).
AskedStart == anim_args.start_frame
AskedEnd   == IF IsNone(anim_args.end_frame) THEN NFrames - 1
              ELSE anim_args.end_frame.num

InRange == 0 <= AskedStart /\ AskedStart <= AskedEnd /\ AskedEnd <= NFrames - 1

\* The images drawn by animate, in order.
FramesShown == SubSeq(shown, 2, Len(shown))

\* C7: for 0 <= s <= e <= N-1 the animation has exactly e - s + 1 rendered
\* frames and rendered frame i shows data frame s + i; an explicitly given
\* end_frame is the index of the final frame shown.
C7_FramesStartToEnd ==
    (AnimCalled /\ InRange) =>
        /\ Returned(ani)
        /\ pc # "render_failed"
        /\ Len(FramesShown) <= AskedEnd - AskedStart + 1
        /\ \A i \in 1..Len(FramesShown) :
              FramesShown[i].frame = AskedStart + (i - 1)
        /\ pc = "played" => Len(FramesShown) = AskedEnd - AskedStart + 1

\* The colour-scale bounds the claim prescribes.
AskedVmin == IF IsNone(anim_args.vmin) THEN np_min(anim_args.data_array)
             ELSE anim_args.vmin.num
AskedVmax == IF IsNone(anim_args.vmax) THEN np_max(anim_args.data_array)
             ELSE anim_args.vmax.num

\* C8: every image of a call, the initial plot included, is drawn with the
\* same (vmin, vmax): the caller's value when one is given, whatever the
\* number, and otherwise the minimum / maximum over the whole cube.
C8_FixedColourScale ==
    AnimCalled =>
        \A i \in 1..Len(shown) :
            /\ shown[i].vmin = AskedVmin
            /\ shown[i].vmax = AskedVmax

\* C9: a start_frame or end_frame outside 0..N-1, or start > end, makes the
\* call end in an error, and no image outside start..end or outside 0..N-1
\* is ever drawn.
C9_OutOfRangeIsError ==
    (AnimCalled /\ ~InRange) =>
        /\ Raised(ani)
        /\ shown = <<>>

(***************************************************************************)
(* Phase folding: the epoch is centred at zero.                            *)
(***************************************************************************)
\* No step of the fold of t rounds on the way to the remainder: t - t0 and
\* t - t0 + 0.5P are floats, and so is the remainder brought back into
\* [0, P).
NoRounding(t, t0, P) ==
    /\ ExactArg(t, t0, P)
    /\ \/ FoldArg(t, t0, P) >= 0
       \/ IsFloat(fmod(FoldArg(t, t0, P), P) + P)

\* C12 (as stated): fold(t) - (t - t0) is an integer multiple of P; a time
\* a whole number of periods from the epoch folds to 0; a time half a
\* period after the epoch folds to -0.5P.
C12_CentredOnEpoch ==
    Folded =>
        \A i \in 1..Len(x) :
            LET d == x[i] - t0_guess
            IN  /\ (x_fold[i] - d) % period_guess = 0
                /\ d % period_guess = 0 => x_fold[i] = 0
                /\ d = Half(period_guess) => x_fold[i] = -Half(period_guess)

\* C12 (amended): the same three statements for every time whose fold
\* involves no rounding of t - t0, of t - t0 + 0.5P or of the remainder.
C12_CentredOnEpochExact ==
    Folded =>
        \A i \in 1..Len(x) :
            LET d == x[i] - t0_guess
            IN  NoRounding(x[i], t0_guess, period_guess) =>
                    /\ (x_fold[i] - d) % period_guess = 0
                    /\ d % period_guess = 0 => x_fold[i] = 0
                    /\ d = Half(period_guess) => x_fold[i] = -Half(period_guess)

\* C12 witness: one time a nonzero whole number of periods before the epoch
\* has folded to 0 and another, half a period after the epoch, to -0.5P,
\* both without rounding.
C12_Witness ==
    /\ Folded
    /\ Len(x) = 2
    /\ x[1] < t0_guess
    /\ (x[1] - t0_guess) % period_guess = 0
    /\ NoRounding(x[1], t0_guess, period_guess)
    /\ x_fold[1] = 0
    /\ x[2] - t0_guess = Half(period_guess)
    /\ NoRounding(x[2], t0_guess, period_guess)
    /\ x_fold[2] = -Half(period_guess)

=============================================================================
